---- MODULE Spec2Model ----
(***************************************************************************)
(* Model of package dn (src/dn.go): comparison of two DER-encoded X.501    *)
(* distinguished names following RFC 5280 section 7.                       *)
(*                                                                         *)
(* Byte strings are sequences of 0..255.  Offsets are Go offsets (0-based):*)
(* the byte at offset o of b is b[o + 1].  Decoders return records with an *)
(* ok flag; err carries the error text ("nil" when there is no error).     *)
(***************************************************************************)
EXTENDS Integers, Sequences, FiniteSets, TLC

(***************************************************************************)
(* encoding/asn1 as used by parseDn and toString                           *)
(***************************************************************************)
ClassUniversal == 0
TagOID == 6
TagUTF8String == 12
TagSequence == 16
TagSet == 17
TagNumericString == 18
TagPrintableString == 19
TagT61String == 20
TagIA5String == 22
TagGeneralString == 27
TagBMPString == 30
MaxInt32 == 2147483647

NoErr == "nil"
ErrSyntax == "asn1: syntax error"
ErrStructural == "asn1: structure error"

Slice(b, from, to) == SubSeq(b, from + 1, to)

\* F applied to the value of e, which is computed once.
With(e, F(_)) == CHOOSE r \in { F(a) : a \in {e} } : TRUE

\* parseBase128Int: a base-128 integer starting at offset off.
RECURSIVE base128(_, _, _, _)
base128(b, off, shifted, acc) ==
    IF off >= Len(b) THEN [ok |-> FALSE, v |-> 0, off |-> off]
    ELSE IF shifted = 5 THEN [ok |-> FALSE, v |-> 0, off |-> off]
    ELSE IF shifted = 0 /\ b[off + 1] = 128 THEN [ok |-> FALSE, v |-> 0, off |-> off]
    ELSE IF acc > (MaxInt32 - (b[off + 1] % 128)) \div 128
         THEN [ok |-> FALSE, v |-> 0, off |-> off]
    ELSE IF b[off + 1] < 128
         THEN [ok |-> TRUE, v |-> acc * 128 + (b[off + 1] % 128), off |-> off + 1]
    ELSE base128(b, off + 1, shifted + 1, acc * 128 + (b[off + 1] % 128))

parseBase128Int(b, off) == base128(b, off, 0, 0)

\* the long form of a length: numBytes big-endian bytes starting at off.
RECURSIVE longLength(_, _, _, _)
longLength(b, off, numBytes, acc) ==
    IF numBytes = 0 THEN [ok |-> acc >= 128, v |-> acc, off |-> off]
    ELSE IF off >= Len(b) THEN [ok |-> FALSE, v |-> 0, off |-> off]
    ELSE IF acc >= 8388608 THEN [ok |-> FALSE, v |-> 0, off |-> off]
    ELSE IF acc = 0 /\ b[off + 1] = 0 THEN [ok |-> FALSE, v |-> 0, off |-> off]
    ELSE longLength(b, off + 1, numBytes - 1, acc * 256 + b[off + 1])

BadTL == [ok |-> FALSE, class |-> 0, isCompound |-> FALSE, tag |-> 0,
          length |-> 0, off |-> 0]

\* the tag number of the identifier octets at off (low or high tag form).
tagNumber(b, off) ==
    IF b[off + 1] % 32 # 31
    THEN [ok |-> TRUE, v |-> b[off + 1] % 32, off |-> off + 1]
    ELSE With(parseBase128Int(b, off + 1), LAMBDA r :
              IF r.ok /\ r.v < 31 THEN [ok |-> FALSE, v |-> 0, off |-> off] ELSE r)

\* the length octets at off (short or long form; indefinite is an error).
lengthOctets(b, off) ==
    IF b[off + 1] < 128 THEN [ok |-> TRUE, v |-> b[off + 1], off |-> off + 1]
    ELSE IF b[off + 1] = 128 THEN [ok |-> FALSE, v |-> 0, off |-> off]
    ELSE longLength(b, off + 1, b[off + 1] % 128, 0)

\* parseTagAndLength: the identifier and length octets at offset off; off of
\* the result is the offset of the contents.
parseTagAndLength(b, off) ==
    IF off >= Len(b) THEN BadTL
    ELSE With(tagNumber(b, off), LAMBDA hi :
         IF ~hi.ok \/ hi.off >= Len(b) THEN BadTL
         ELSE With(lengthOctets(b, hi.off), LAMBDA ln :
              IF ~ln.ok THEN BadTL
              ELSE [ok |-> TRUE, class |-> b[off + 1] \div 64,
                    isCompound |-> ((b[off + 1] \div 32) % 2) = 1,
                    tag |-> hi.v, length |-> ln.v, off |-> ln.off]))

invalidLength(off, length, sliceLength) == off + length > sliceLength

\* parseObjectIdentifier: the arcs of an OBJECT IDENTIFIER's contents.
RECURSIVE oidArcs(_, _, _)
oidArcs(b, off, acc) ==
    IF off >= Len(b) THEN [ok |-> TRUE, v |-> acc]
    ELSE With(parseBase128Int(b, off), LAMBDA r :
         IF ~r.ok THEN [ok |-> FALSE, v |-> <<>>]
         ELSE oidArcs(b, r.off, Append(acc, r.v)))

parseObjectIdentifier(b) ==
    IF Len(b) = 0 THEN [ok |-> FALSE, v |-> <<>>]
    ELSE With(parseBase128Int(b, 0), LAMBDA r :
         IF ~r.ok THEN [ok |-> FALSE, v |-> <<>>]
         ELSE oidArcs(b, r.off,
                      IF r.v < 80 THEN <<r.v \div 40, r.v % 40>>
                      ELSE <<2, r.v - 80>>))

(***************************************************************************)
(* Go strings are UTF-8 byte strings; runes are code points.               *)
(***************************************************************************)
isCont(x) == x >= 128 /\ x <= 191

BadRune == [r |-> 65533, size |-> 0]

\* the rune that starts at offset off of a UTF-8 byte string, with its size
\* (size 0: the bytes there are not valid UTF-8); n bytes remain from off.
decodeRuneIn(b, off, n) ==
    IF b[off + 1] < 128 THEN [r |-> b[off + 1], size |-> 1]
    ELSE IF b[off + 1] >= 194 /\ b[off + 1] <= 223
         THEN IF n >= 2 /\ isCont(b[off + 2])
              THEN [r |-> (b[off + 1] - 192) * 64 + (b[off + 2] - 128), size |-> 2]
              ELSE BadRune
    ELSE IF b[off + 1] >= 224 /\ b[off + 1] <= 239
         THEN IF n >= 3 /\ isCont(b[off + 2]) /\ isCont(b[off + 3])
                 /\ (b[off + 1] = 224 => b[off + 2] >= 160)
                 /\ (b[off + 1] = 237 => b[off + 2] <= 159)
              THEN [r |-> (b[off + 1] - 224) * 4096 + (b[off + 2] - 128) * 64
                          + (b[off + 3] - 128), size |-> 3]
              ELSE BadRune
    ELSE IF b[off + 1] >= 240 /\ b[off + 1] <= 244
         THEN IF n >= 4 /\ isCont(b[off + 2]) /\ isCont(b[off + 3])
                 /\ isCont(b[off + 4])
                 /\ (b[off + 1] = 240 => b[off + 2] >= 144)
                 /\ (b[off + 1] = 244 => b[off + 2] <= 143)
              THEN [r |-> (b[off + 1] - 240) * 262144 + (b[off + 2] - 128) * 4096
                          + (b[off + 3] - 128) * 64 + (b[off + 4] - 128), size |-> 4]
              ELSE BadRune
    ELSE BadRune

decodeRune(b, off) == decodeRuneIn(b, off, Len(b) - off)

RECURSIVE utf8Valid(_, _)
utf8Valid(b, off) ==
    IF off >= Len(b) THEN TRUE
    ELSE With(decodeRune(b, off), LAMBDA d :
              d.size > 0 /\ utf8Valid(b, off + d.size))

\* []rune(s): invalid bytes become U+FFFD, one byte at a time.
RECURSIVE toRunes(_, _)
toRunes(b, off) ==
    IF off >= Len(b) THEN <<>>
    ELSE With(decodeRune(b, off), LAMBDA d :
              <<d.r>> \o toRunes(b, off + (IF d.size = 0 THEN 1 ELSE d.size)))

\* the UTF-8 encoding of one rune.
encodeRune(r) ==
    IF r < 128 THEN <<r>>
    ELSE IF r < 2048 THEN <<192 + (r \div 64), 128 + (r % 64)>>
    ELSE IF r >= 55296 /\ r <= 57343 THEN <<239, 191, 189>>
    ELSE IF r < 65536
         THEN <<224 + (r \div 4096), 128 + ((r \div 64) % 64), 128 + (r % 64)>>
    ELSE <<240 + (r \div 262144), 128 + ((r \div 4096) % 64),
           128 + ((r \div 64) % 64), 128 + (r % 64)>>

RECURSIVE runesToString(_)
runesToString(rs) ==
    IF rs = <<>> THEN <<>> ELSE encodeRune(Head(rs)) \o runesToString(Tail(rs))

\* utf16.Decode over the big-endian code units of b from offset off on.
unit(b, off) == b[off + 1] * 256 + b[off + 2]

RECURSIVE utf16Decode(_, _)
utf16Decode(b, off) ==
    IF off + 1 >= Len(b) THEN <<>>
    ELSE IF unit(b, off) >= 55296 /\ unit(b, off) <= 56319 /\ off + 3 < Len(b)
            /\ unit(b, off + 2) >= 56320 /\ unit(b, off + 2) <= 57343
         THEN <<65536 + (unit(b, off) - 55296) * 1024 + (unit(b, off + 2) - 56320)>>
              \o utf16Decode(b, off + 4)
    ELSE IF unit(b, off) >= 55296 /\ unit(b, off) <= 57343
         THEN <<65533>> \o utf16Decode(b, off + 2)
    ELSE <<unit(b, off)>> \o utf16Decode(b, off + 2)

isPrintable(x) ==
    \/ x >= 97 /\ x <= 122
    \/ x >= 65 /\ x <= 90
    \/ x >= 48 /\ x <= 57
    \/ x >= 39 /\ x <= 41
    \/ x >= 43 /\ x <= 47
    \/ x \in {32, 58, 61, 63, 42, 38}

isNumeric(x) == (x >= 48 /\ x <= 57) \/ x = 32

\* the string parsers of encoding/asn1, by universal tag.
parseString(tag, b) ==
    IF tag = TagPrintableString
    THEN IF \A k \in 1..Len(b) : isPrintable(b[k])
         THEN [ok |-> TRUE, s |-> b] ELSE [ok |-> FALSE, s |-> <<>>]
    ELSE IF tag = TagNumericString
    THEN IF \A k \in 1..Len(b) : isNumeric(b[k])
         THEN [ok |-> TRUE, s |-> b] ELSE [ok |-> FALSE, s |-> <<>>]
    ELSE IF tag = TagIA5String
    THEN IF \A k \in 1..Len(b) : b[k] < 128
         THEN [ok |-> TRUE, s |-> b] ELSE [ok |-> FALSE, s |-> <<>>]
    ELSE IF tag = TagUTF8String
    THEN IF utf8Valid(b, 0)
         THEN [ok |-> TRUE, s |-> b] ELSE [ok |-> FALSE, s |-> <<>>]
    ELSE IF tag = TagBMPString
    THEN IF Len(b) % 2 # 0 THEN [ok |-> FALSE, s |-> <<>>]
         ELSE IF Len(b) >= 2 /\ b[Len(b)] = 0 /\ b[Len(b) - 1] = 0
         THEN [ok |-> TRUE,
               s |-> runesToString(utf16Decode(SubSeq(b, 1, Len(b) - 2), 0))]
         ELSE [ok |-> TRUE, s |-> runesToString(utf16Decode(b, 0))]
    ELSE [ok |-> TRUE, s |-> b]

StringTags == {TagIA5String, TagGeneralString, TagT61String, TagUTF8String,
               TagNumericString, TagBMPString}

BadString(e) == [err |-> e, s |-> <<>>, rest |-> <<>>]

\* the universal tag a string field is matched against
stringTag(t) ==
    IF t.class = ClassUniversal /\ t.tag \in StringTags
    THEN t.tag ELSE TagPrintableString

\* asn1.Unmarshal(src, &s) for a string s: the decoded string and the rest.
unmarshalString(src) ==
    IF Len(src) = 0 THEN BadString(ErrSyntax)
    ELSE With(parseTagAndLength(src, 0), LAMBDA t :
         IF ~t.ok THEN BadString(ErrSyntax)
         ELSE IF t.class # ClassUniversal \/ t.tag # stringTag(t) \/ t.isCompound
              THEN BadString(ErrStructural)
         ELSE IF invalidLength(t.off, t.length, Len(src)) THEN BadString(ErrSyntax)
         ELSE With(parseString(stringTag(t), Slice(src, t.off, t.off + t.length)),
                   LAMBDA p :
                   IF ~p.ok THEN BadString(ErrSyntax)
                   ELSE [err |-> NoErr, s |-> p.s,
                         rest |-> Slice(src, t.off + t.length, Len(src))]))

ErrTrailingString == "dn: trailing data after ASN.1 of string"

\* toString decodes src, which is encoded as ASN.1 string, to string.
toString(src) ==
    With(unmarshalString(src), LAMBDA u :
         IF u.err # NoErr THEN [s |-> <<>>, err |-> u.err]
         ELSE IF Len(u.rest) # 0 THEN [s |-> <<>>, err |-> ErrTrailingString]
         ELSE [s |-> u.s, err |-> NoErr])

(***************************************************************************)
(* type dn []rdnSET; type rdnSET []attribute;                              *)
(* type attribute struct { Oid; RawValue }                                 *)
(* A value of type dn is a Go slice: nil, or a sequence of rdnSET.         *)
(***************************************************************************)
NilDn == [isNil |-> TRUE, rdns |-> <<>>]
MkDn(rdns) == [isNil |-> FALSE, rdns |-> rdns]
len(d) == Len(d.rdns)

attribute(oid, tag, fullBytes) ==
    [Oid |-> oid, RawValue |-> [Tag |-> tag, FullBytes |-> fullBytes]]

BadField == [ok |-> FALSE, v |-> <<>>, off |-> 0]

\* the tag a SEQUENCE OF element header is matched with
elementTag(tag) ==
    IF tag \in StringTags THEN TagPrintableString
    ELSE IF tag = 24 THEN 23 ELSE tag

\* parseSequenceOf, first pass: every element header of a SEQUENCE OF / SET OF
\* is universal, constructed, carries expectedTag and fits in the contents.
RECURSIVE headersOk(_, _, _)
headersOk(b, off, expectedTag) ==
    IF off >= Len(b) THEN TRUE
    ELSE With(parseTagAndLength(b, off), LAMBDA t :
         /\ t.ok
         /\ t.class = ClassUniversal /\ t.isCompound
         /\ elementTag(t.tag) = expectedTag
         /\ ~invalidLength(t.off, t.length, Len(b))
         /\ headersOk(b, t.off + t.length, expectedTag))

\* the header of a universal constructed element with the given tag at off,
\* whose contents fit in b
compoundHeader(b, off, tag) ==
    IF off >= Len(b) THEN BadTL
    ELSE With(parseTagAndLength(b, off), LAMBDA t :
         IF ~t.ok THEN BadTL
         ELSE IF t.class # ClassUniversal \/ t.tag # tag \/ ~t.isCompound THEN BadTL
         ELSE IF invalidLength(t.off, t.length, Len(b)) THEN BadTL
         ELSE t)

\* the field RawValue of attribute: any one element at offset voff of inner
parseRawValue(inner, voff, oid) ==
    IF voff >= Len(inner) THEN BadField
    ELSE With(parseTagAndLength(inner, voff), LAMBDA tv :
         IF ~tv.ok THEN BadField
         ELSE IF invalidLength(tv.off, tv.length, Len(inner)) THEN BadField
         ELSE [ok |-> TRUE,
               v |-> attribute(oid, tv.tag, Slice(inner, voff, tv.off + tv.length)),
               off |-> tv.off + tv.length])

\* the fields of attribute in the contents inner of its SEQUENCE: an OBJECT
\* IDENTIFIER and then a RawValue; bytes that follow are allowed.
parseAttributeFields(inner) ==
    IF Len(inner) = 0 THEN BadField
    ELSE With(parseTagAndLength(inner, 0), LAMBDA to :
         IF ~to.ok THEN BadField
         ELSE IF to.class # ClassUniversal \/ to.tag # TagOID \/ to.isCompound
              THEN BadField
         ELSE IF invalidLength(to.off, to.length, Len(inner)) THEN BadField
         ELSE With(parseObjectIdentifier(Slice(inner, to.off, to.off + to.length)),
                   LAMBDA oid :
                   IF ~oid.ok THEN BadField
                   ELSE parseRawValue(inner, to.off + to.length, oid.v)))

\* parseField for the struct attribute at offset off of b
parseAttribute(b, off) ==
    With(compoundHeader(b, off, TagSequence), LAMBDA t :
         IF ~t.ok THEN BadField
         ELSE With(parseAttributeFields(Slice(b, t.off, t.off + t.length)),
                   LAMBDA f :
                   IF ~f.ok THEN BadField
                   ELSE [ok |-> TRUE, v |-> f.v, off |-> t.off + t.length]))

\* parseSequenceOf, second pass, for the elements of an rdnSET.
RECURSIVE parseAttributes(_, _, _)
parseAttributes(b, off, acc) ==
    IF off >= Len(b) THEN [ok |-> TRUE, v |-> acc, off |-> off]
    ELSE With(parseAttribute(b, off), LAMBDA a :
         IF ~a.ok THEN BadField
         ELSE parseAttributes(b, a.off, Append(acc, a.v)))

\* parseSequenceOf for the contents inner of a SET OF attribute
parseSetOfAttribute(inner) ==
    IF ~headersOk(inner, 0, TagSequence) THEN BadField
    ELSE parseAttributes(inner, 0, <<>>)

\* parseField for the slice rdnSET at offset off of b: a SET OF attribute.
parseRdnSET(b, off) ==
    With(compoundHeader(b, off, TagSet), LAMBDA t :
         IF ~t.ok THEN BadField
         ELSE With(parseSetOfAttribute(Slice(b, t.off, t.off + t.length)),
                   LAMBDA elems :
                   IF ~elems.ok THEN BadField
                   ELSE [ok |-> TRUE, v |-> elems.v, off |-> t.off + t.length]))

\* parseSequenceOf, second pass, for the elements of a dn.
RECURSIVE parseRdnSETs(_, _, _)
parseRdnSETs(b, off, acc) ==
    IF off >= Len(b) THEN [ok |-> TRUE, v |-> acc, off |-> off]
    ELSE With(parseRdnSET(b, off), LAMBDA r :
         IF ~r.ok THEN BadField
         ELSE parseRdnSETs(b, r.off, Append(acc, r.v)))

\* parseSequenceOf for the contents inner of a SEQUENCE OF rdnSET
parseSequenceOfRdnSET(inner) ==
    IF ~headersOk(inner, 0, TagSet) THEN [ok |-> FALSE, v |-> <<>>, err |-> ErrStructural]
    ELSE With(parseRdnSETs(inner, 0, <<>>), LAMBDA elems :
         IF ~elems.ok THEN [ok |-> FALSE, v |-> <<>>, err |-> ErrSyntax]
         ELSE [ok |-> TRUE, v |-> elems.v, err |-> NoErr])

BadDn(e) == [err |-> e, dn |-> NilDn, rest |-> <<>>]

\* asn1.Unmarshal(dnBytes, &dn): a SEQUENCE OF rdnSET and the rest.
unmarshalDn(dnBytes) ==
    IF Len(dnBytes) = 0 THEN BadDn(ErrSyntax)
    ELSE With(parseTagAndLength(dnBytes, 0), LAMBDA t :
         IF ~t.ok THEN BadDn(ErrSyntax)
         ELSE IF t.class # ClassUniversal \/ t.tag # TagSequence \/ ~t.isCompound
              THEN BadDn(ErrStructural)
         ELSE IF invalidLength(t.off, t.length, Len(dnBytes)) THEN BadDn(ErrSyntax)
         ELSE With(parseSequenceOfRdnSET(Slice(dnBytes, t.off, t.off + t.length)),
                   LAMBDA elems :
                   IF ~elems.ok THEN BadDn(elems.err)
                   ELSE [err |-> NoErr, dn |-> MkDn(elems.v),
                         rest |-> Slice(dnBytes, t.off + t.length, Len(dnBytes))]))

ErrParseDn == "dn: failed to parse distinguished name"

\* parseDn without the test of the bytes left over
parseDnIgnoringRest(dnBytes) ==
    With(unmarshalDn(dnBytes), LAMBDA u :
         IF u.err # NoErr THEN [dn |-> NilDn, err |-> u.err]
         ELSE [dn |-> u.dn, err |-> NoErr])

\* parseDn decodes dnBytes, which is encoded as Distinguished Name, to dn.
parseDn(dnBytes) ==
    With(unmarshalDn(dnBytes), LAMBDA u :
         IF u.err # NoErr THEN [dn |-> NilDn, err |-> u.err]
         ELSE IF Len(u.rest) # 0 THEN [dn |-> NilDn, err |-> ErrParseDn]
         ELSE [dn |-> u.dn, err |-> NoErr])

(***************************************************************************)
(* github.com/tardevnull/ldapstrprep: the RFC 4518 steps used by           *)
(* stringPrepare.  The tables are modelled for the code points listed in   *)
(* each operator; every other code point passes through unchanged.         *)
(***************************************************************************)
Transcode(s) == toRunes(s, 0)

\* RFC 4518 2.2 for one code point: mapped to nothing, to SPACE, or case folded.
mapRune(r, caseFold) ==
    IF r \in {173, 6150, 847, 65532, 8203} \/ (r >= 6155 /\ r <= 6157)
       \/ (r >= 65024 /\ r <= 65039) THEN <<>>
    ELSE IF (r >= 9 /\ r <= 13) \/ r = 133 THEN <<32>>
    ELSE IF r <= 8 \/ (r >= 14 /\ r <= 31) \/ (r >= 127 /\ r <= 159)
            \/ r \in {1757, 1807, 6158, 65279}
            \/ (r >= 8204 /\ r <= 8207) \/ (r >= 8234 /\ r <= 8238)
            \/ (r >= 8288 /\ r <= 8291) \/ (r >= 8298 /\ r <= 8303)
            \/ (r >= 65529 /\ r <= 65531) THEN <<>>
    ELSE IF r \in {160, 5760, 8232, 8233, 8239, 8287, 12288}
            \/ (r >= 8192 /\ r <= 8202) THEN <<32>>
    ELSE IF ~caseFold THEN <<r>>
    ELSE IF r >= 65 /\ r <= 90 THEN <<r + 32>>
    ELSE IF r = 181 THEN <<956>>
    ELSE IF r = 223 THEN <<115, 115>>
    ELSE IF r >= 192 /\ r <= 222 /\ r # 215 THEN <<r + 32>>
    ELSE IF r = 8490 THEN <<107>>
    ELSE IF r >= 65313 /\ r <= 65338 THEN <<r + 32>>
    ELSE <<r>>

RECURSIVE MapCharacters(_, _)
MapCharacters(u, caseFold) ==
    IF u = <<>> THEN <<>>
    ELSE mapRune(Head(u), caseFold) \o MapCharacters(Tail(u), caseFold)

\* NFKC for one code point: the compatibility mappings of the fullwidth Latin
\* small letters and of the ordinal indicators.
nfkcRune(r) ==
    IF r >= 65345 /\ r <= 65370 THEN r - 65248
    ELSE IF r = 170 THEN 97
    ELSE IF r = 186 THEN 111
    ELSE r

Normalize(u) == [k \in 1..Len(u) |-> nfkcRune(u[k])]

\* RFC 4518 2.4: private use, non-character, surrogate and U+FFFD code points.
prohibitedRune(r) ==
    \/ r >= 57344 /\ r <= 63743
    \/ r >= 983040
    \/ r >= 64976 /\ r <= 65007
    \/ (r % 65536) \in {65534, 65535}
    \/ r >= 55296 /\ r <= 57343
    \/ r = 65533

IsProhibited(u) == \E k \in 1..Len(u) : prohibitedRune(u[k])

\* RFC 4518 2.6.1: the maximal runs of code points other than SPACE.
RECURSIVE spaceSplit(_, _, _)
spaceSplit(u, cur, acc) ==
    IF u = <<>> THEN IF cur = <<>> THEN acc ELSE Append(acc, cur)
    ELSE IF Head(u) = 32
         THEN spaceSplit(Tail(u), <<>>, IF cur = <<>> THEN acc ELSE Append(acc, cur))
         ELSE spaceSplit(Tail(u), Append(cur, Head(u)), acc)

RECURSIVE spaceJoin(_)
spaceJoin(ws) ==
    IF Len(ws) = 1 THEN ws[1] ELSE ws[1] \o <<32, 32>> \o spaceJoin(Tail(ws))

ApplyInsignificantSpaceHandling(u) ==
    With(spaceSplit(u, <<>>, <<>>), LAMBDA ws :
         IF ws = <<>> THEN <<32, 32>> ELSE <<32>> \o spaceJoin(ws) \o <<32>>)

ErrProhibited == "ldapstrprep: prohibited character"

\* stringPrepare performs the six-step string preparation algorithm of RFC 4518.
stringPrepare(s) ==
    With(Normalize(MapCharacters(Transcode(s), TRUE)), LAMBDA u :
         IF IsProhibited(u) THEN [u |-> <<>>, err |-> ErrProhibited]
         ELSE [u |-> ApplyInsignificantSpaceHandling(u), err |-> NoErr])

(***************************************************************************)
(* The attribute value comparator                                          *)
(***************************************************************************)
oidDomainComponent == <<0, 9, 2342, 19200300, 100, 1, 25>>

\* unicode.SimpleFold orbits, by their smallest member.
foldRune(r) ==
    IF r >= 97 /\ r <= 122 THEN r - 32
    ELSE IF r = 8490 THEN 75
    ELSE IF r = 383 THEN 83
    ELSE IF r >= 224 /\ r <= 254 /\ r # 247 THEN r - 32
    ELSE r

\* compareByCaseInsensitiveExactMatch comparing the prepared strings
compareByCaseInsensitiveExactMatchPrepared(s, t) ==
    stringPrepare(s).u = stringPrepare(t).u

\* compareByCaseInsensitiveExactMatch: strings.EqualFold(s, t).
compareByCaseInsensitiveExactMatch(s, t) ==
    With(<<toRunes(s, 0), toRunes(t, 0)>>, LAMBDA p :
         /\ Len(p[1]) = Len(p[2])
         /\ \A k \in 1..Len(p[1]) : foldRune(p[1][k]) = foldRune(p[2][k]))

\* compareByCaseIgnoreMatch compares s with t by CaseIgnore Match.
compareByCaseIgnoreMatch(s, t) ==
    With(stringPrepare(s), LAMBDA sr :
         IF sr.err # NoErr THEN [result |-> FALSE, err |-> sr.err]
         ELSE With(stringPrepare(t), LAMBDA tr :
              IF tr.err # NoErr THEN [result |-> FALSE, err |-> tr.err]
              ELSE IF runesToString(sr.u) = runesToString(tr.u)
                   THEN [result |-> TRUE, err |-> NoErr]
              ELSE [result |-> FALSE, err |-> NoErr]))

\* compareByBinaryComparison without the test of the lengths
compareByBinaryComparisonNoLengthTest(x, y) ==
    IF x # y THEN FALSE
    ELSE TRUE

\* compareByBinaryComparison compares x with y by Binary Comparison.
compareByBinaryComparison(x, y) ==
    IF Len(x) = 0 \/ Len(y) = 0 THEN FALSE
    ELSE IF x # y THEN FALSE
    ELSE TRUE

\* isComparableDirectoryString reports whether tx and ty are comparable by
\* Case Ignore Match.
isComparableDirectoryStringEither(tx, ty) ==
    \/ (IF tx = TagUTF8String THEN TRUE
        ELSE IF tx = TagPrintableString THEN TRUE ELSE FALSE)
    \/ (IF ty = TagUTF8String THEN TRUE
        ELSE IF ty = TagPrintableString THEN TRUE ELSE FALSE)

isComparableDirectoryString(tx, ty) ==
    /\ (IF tx = TagUTF8String THEN TRUE
        ELSE IF tx = TagPrintableString THEN TRUE ELSE FALSE)
    /\ (IF ty = TagUTF8String THEN TRUE
        ELSE IF ty = TagPrintableString THEN TRUE ELSE FALSE)

ErrDomainComponent == "dn: domain component should be IA5String"

\* compareAttribute decoding both values before it looks at the types
compareAttributeDecodingFirst(x, y) ==
    With(toString(x.RawValue.FullBytes), LAMBDA s :
         IF s.err # NoErr THEN [result |-> FALSE, err |-> s.err]
         ELSE With(toString(y.RawValue.FullBytes), LAMBDA t :
              IF t.err # NoErr THEN [result |-> FALSE, err |-> t.err]
              ELSE IF x.Oid # y.Oid THEN [result |-> FALSE, err |-> NoErr]
              ELSE IF x.Oid = oidDomainComponent /\ y.Oid = oidDomainComponent
                   THEN IF x.RawValue.Tag # TagIA5String
                           \/ y.RawValue.Tag # TagIA5String
                        THEN [result |-> FALSE, err |-> ErrDomainComponent]
                        ELSE [result |-> compareByCaseInsensitiveExactMatch(s.s, t.s),
                              err |-> NoErr]
              ELSE IF isComparableDirectoryString(x.RawValue.Tag, y.RawValue.Tag)
                   THEN compareByCaseIgnoreMatch(s.s, t.s)
              ELSE [result |-> compareByBinaryComparison(x.RawValue.FullBytes,
                                                         y.RawValue.FullBytes),
                    err |-> NoErr]))

\* compareAttribute without the domain component rule
compareAttributeNoDomainComponentRule(x, y) ==
    IF x.Oid # y.Oid THEN [result |-> FALSE, err |-> NoErr]
    ELSE With(toString(x.RawValue.FullBytes), LAMBDA s :
         IF s.err # NoErr THEN [result |-> FALSE, err |-> s.err]
         ELSE With(toString(y.RawValue.FullBytes), LAMBDA t :
              IF t.err # NoErr THEN [result |-> FALSE, err |-> t.err]
              ELSE IF isComparableDirectoryString(x.RawValue.Tag, y.RawValue.Tag)
                   THEN compareByCaseIgnoreMatch(s.s, t.s)
              ELSE [result |-> compareByBinaryComparison(x.RawValue.FullBytes,
                                                         y.RawValue.FullBytes),
                    err |-> NoErr]))

\* compareAttribute reports whether attribute x and attribute y matches.
compareAttribute(x, y) ==
    IF x.Oid # y.Oid THEN [result |-> FALSE, err |-> NoErr]
    ELSE With(toString(x.RawValue.FullBytes), LAMBDA s :
         IF s.err # NoErr THEN [result |-> FALSE, err |-> s.err]
         ELSE With(toString(y.RawValue.FullBytes), LAMBDA t :
              IF t.err # NoErr THEN [result |-> FALSE, err |-> t.err]
              ELSE IF x.Oid = oidDomainComponent /\ y.Oid = oidDomainComponent
                   THEN IF x.RawValue.Tag # TagIA5String
                           \/ y.RawValue.Tag # TagIA5String
                        THEN [result |-> FALSE, err |-> ErrDomainComponent]
                        ELSE [result |-> compareByCaseInsensitiveExactMatch(s.s, t.s),
                              err |-> NoErr]
              ELSE IF isComparableDirectoryString(x.RawValue.Tag, y.RawValue.Tag)
                   THEN compareByCaseIgnoreMatch(s.s, t.s)
              ELSE [result |-> compareByBinaryComparison(x.RawValue.FullBytes,
                                                         y.RawValue.FullBytes),
                    err |-> NoErr]))

(***************************************************************************)
(* The RDN matcher and the distinguished name matcher                      *)
(***************************************************************************)
ErrBounds == "dn: rdnSET bounds out of range"

\* removeAttribute removing the first attribute whatever the index is
removeAttributeFirst(index, r) ==
    IF index < 0 \/ index >= Len(r) THEN [result |-> <<>>, err |-> ErrBounds]
    ELSE [result |-> SubSeq(r, 2, Len(r)), err |-> NoErr]

\* removeAttribute removes attribute specified by index from r and returns it.
removeAttribute(index, r) ==
    IF index < 0 \/ index >= Len(r) THEN [result |-> <<>>, err |-> ErrBounds]
    ELSE [result |-> SubSeq(r, 1, index) \o SubSeq(r, index + 2, Len(r)),
          err |-> NoErr]

\* the loop of findMatchedAttribute taking a comparison error for a non-match
RECURSIVE findMatchedFromSwallowing(_, _, _)
findMatchedFromSwallowing(atv, r, k) ==
    IF k >= Len(r) THEN [result |-> FALSE, rest |-> r, err |-> NoErr]
    ELSE With(compareAttribute(atv, r[k + 1]), LAMBDA c :
         IF c.err = NoErr /\ c.result
         THEN [result |-> TRUE, rest |-> removeAttribute(k, r).result, err |-> NoErr]
         ELSE findMatchedFromSwallowing(atv, r, k + 1))

\* the loop of findMatchedAttribute that leaves the matched attribute in r
RECURSIVE findMatchedFromKeeping(_, _, _)
findMatchedFromKeeping(atv, r, k) ==
    IF k >= Len(r) THEN [result |-> FALSE, rest |-> r, err |-> NoErr]
    ELSE With(compareAttribute(atv, r[k + 1]), LAMBDA c :
         IF c.err # NoErr THEN [result |-> FALSE, rest |-> <<>>, err |-> c.err]
         ELSE IF c.result THEN [result |-> TRUE, rest |-> r, err |-> NoErr]
         ELSE findMatchedFromKeeping(atv, r, k + 1))

\* the loop of findMatchedAttribute that gives up after the first candidate
findMatchedFromFirstOnly(atv, r, k) ==
    IF k >= Len(r) THEN [result |-> FALSE, rest |-> r, err |-> NoErr]
    ELSE With(compareAttribute(atv, r[k + 1]), LAMBDA c :
         IF c.err # NoErr THEN [result |-> FALSE, rest |-> <<>>, err |-> c.err]
         ELSE IF c.result
              THEN [result |-> TRUE, rest |-> removeAttribute(k, r).result,
                    err |-> NoErr]
         ELSE [result |-> FALSE, rest |-> r, err |-> NoErr])

\* the loop of findMatchedAttribute from index k on.
RECURSIVE findMatchedFrom(_, _, _)
findMatchedFrom(atv, r, k) ==
    IF k >= Len(r) THEN [result |-> FALSE, rest |-> r, err |-> NoErr]
    ELSE With(compareAttribute(atv, r[k + 1]), LAMBDA c :
         IF c.err # NoErr THEN [result |-> FALSE, rest |-> <<>>, err |-> c.err]
         ELSE IF c.result
              THEN With(removeAttribute(k, r), LAMBDA rm :
                   IF rm.err # NoErr
                   THEN [result |-> FALSE, rest |-> <<>>, err |-> rm.err]
                   ELSE [result |-> TRUE, rest |-> rm.result, err |-> NoErr])
         ELSE findMatchedFrom(atv, r, k + 1))

\* findMatchedAttribute finds RDN r contains attribute atv and if r contains
\* atv, then return true and RDN which removed atv from r.
findMatchedAttribute(atv, r) == findMatchedFrom(atv, r, 0)

\* the loop of compareRelativeDistinguishedName from index k on.
RECURSIVE compareRdnFrom(_, _, _)
compareRdnFrom(xr, rest, k) ==
    IF k >= Len(xr) THEN [result |-> TRUE, err |-> NoErr]
    ELSE With(findMatchedAttribute(xr[k + 1], rest), LAMBDA f :
         IF f.err # NoErr THEN [result |-> FALSE, err |-> f.err]
         ELSE IF f.result = FALSE THEN [result |-> FALSE, err |-> NoErr]
         ELSE compareRdnFrom(xr, f.rest, k + 1))

\* compareRelativeDistinguishedName reports whether xr and yr matches.
compareRelativeDistinguishedName(xr, yr) ==
    IF Len(xr) # Len(yr) THEN [result |-> FALSE, err |-> NoErr]
    ELSE compareRdnFrom(xr, yr, 0)

\* the loop of compareDistinguishedName looking for xd[k] at any position of yd
RECURSIVE compareDnFromAnyOrder(_, _, _)
compareDnFromAnyOrder(xd, yd, k) ==
    IF k >= len(xd) THEN [result |-> TRUE, err |-> NoErr]
    ELSE IF \E j \in 1..len(yd) :
               compareRelativeDistinguishedName(xd.rdns[k + 1], yd.rdns[j])
                   = [result |-> TRUE, err |-> NoErr]
         THEN compareDnFromAnyOrder(xd, yd, k + 1)
         ELSE [result |-> FALSE, err |-> NoErr]

\* the loop of compareDistinguishedName from index k on.
RECURSIVE compareDnFrom(_, _, _)
compareDnFrom(xd, yd, k) ==
    IF k >= len(xd) THEN [result |-> TRUE, err |-> NoErr]
    ELSE With(compareRelativeDistinguishedName(xd.rdns[k + 1], yd.rdns[k + 1]),
              LAMBDA m :
              IF m.err # NoErr THEN [result |-> FALSE, err |-> m.err]
              ELSE IF m.result = FALSE THEN [result |-> FALSE, err |-> NoErr]
              ELSE compareDnFrom(xd, yd, k + 1))

\* compareDistinguishedName reports whether xd and yd matches.
compareDistinguishedName(xd, yd) ==
    IF len(xd) # len(yd) THEN [result |-> FALSE, err |-> NoErr]
    ELSE compareDnFrom(xd, yd, 0)

ErrEmptyIssuer == "dn: the issuer field must contain a non-empty distinguished name"

\* Compare reports whether issuer and subject matches (the whole call).
CompareCall(issuerBytes, subjectBytes) ==
    IF Len(issuerBytes) = 0 THEN [result |-> FALSE, err |-> ErrEmptyIssuer]
    ELSE IF Len(subjectBytes) = 0 THEN [result |-> FALSE, err |-> NoErr]
    ELSE With(parseDn(issuerBytes), LAMBDA pi :
         IF pi.err # NoErr THEN [result |-> FALSE, err |-> pi.err]
         ELSE With(parseDn(subjectBytes), LAMBDA ps :
              IF ps.err # NoErr THEN [result |-> FALSE, err |-> ps.err]
              ELSE compareDistinguishedName(pi.dn, ps.dn)))

(***************************************************************************)
(* Inputs: DER encodings built the way the fixtures of dn_test.go are.     *)
(***************************************************************************)
EncTLV(t, content) == <<t, Len(content)>> \o content

RECURSIVE Concat(_)
Concat(ss) == IF ss = <<>> THEN <<>> ELSE Head(ss) \o Concat(Tail(ss))

oidOrganizationBytes == <<85, 4, 10>>
oidDomainComponentBytes == <<9, 146, 38, 137, 147, 242, 44, 100, 1, 25>>

\* an AttributeTypeAndValue: SEQUENCE { OBJECT IDENTIFIER, value }
EncAtv(oidBytes, value) == EncTLV(48, EncTLV(6, oidBytes) \o value)
\* a RelativeDistinguishedName: SET OF the given encoded attributes
EncRdn(atvs) == EncTLV(49, Concat(atvs))
\* a Name: SEQUENCE OF the given RDNs, each a sequence of encoded attributes
EncDn(d) == EncTLV(48, Concat([k \in 1..Len(d) |-> EncRdn(d[k])]))

pAtvB == EncAtv(oidOrganizationBytes, <<19, 2, 97, 98>>)       \* O=ab PrintableString
utf8AtvB == EncAtv(oidOrganizationBytes, <<12, 2, 65, 66>>)    \* O=AB UTF8String
bmpAtvB == EncAtv(oidOrganizationBytes, <<30, 4, 0, 97, 0, 98>>) \* O=ab BMPString
wrongDcAtvB == EncAtv(oidDomainComponentBytes, <<19, 2, 97, 98>>) \* DC=ab PrintableString
prohibitedAtvB == EncAtv(oidOrganizationBytes, <<12, 3, 239, 191, 189>>) \* O=U+FFFD UTF8String

intAtvB == EncAtv(oidOrganizationBytes, <<2, 1, 5>>)             \* O=INTEGER 5
ia5AtvB == EncAtv(oidDomainComponentBytes, <<22, 2, 97, 98>>)     \* DC=ab IA5String

AtvPool == {pAtvB, utf8AtvB, bmpAtvB, wrongDcAtvB, prohibitedAtvB, intAtvB, ia5AtvB}

\* the most attributes a generated name holds, over all its RDNs
MaxAtvs == 2

\* f cut into RDNs after the positions in cuts
RECURSIVE SplitAt(_, _, _, _)
SplitAt(f, cuts, k, cur) ==
    IF k > Len(f) THEN IF cur = <<>> THEN <<>> ELSE <<cur>>
    ELSE IF k \in cuts THEN <<Append(cur, f[k])>> \o SplitAt(f, cuts, k + 1, <<>>)
    ELSE SplitAt(f, cuts, k + 1, Append(cur, f[k]))

\* names as sequences of RDNs, each a non-empty sequence of encoded attributes;
\* and the name that holds one empty RDN
DnStructs ==
    { << <<>> >> } \cup
    UNION { UNION { { SplitAt(f, cuts, 1, <<>>) : cuts \in SUBSET (1..(n - 1)) }
                    : f \in [1..n -> AtvPool] } : n \in 0..MaxAtvs }

\* (rdn index, attribute index) of every attribute of name d
Positions(d) == { <<k, j>> \in (1..Len(d)) \X (1..MaxAtvs) : j <= Len(d[k]) }

Reverse(q) == [k \in 1..Len(q) |-> q[Len(q) + 1 - k]]

\* names near d: d itself, d with one attribute replaced, with its RDNs
\* reversed, with the attributes of every RDN reversed, without its last RDN
Variants(d) ==
    {d} \cup { [d EXCEPT ![p[1]][p[2]] = a] : p \in Positions(d), a \in AtvPool }
        \cup { Reverse(d), [k \in 1..Len(d) |-> Reverse(d[k])] }
        \cup { SubSeq(d, 1, Len(d) - 1) }

\* byte strings that are not the Name b: trailing byte, last byte missing,
\* SET in place of SEQUENCE, one stray byte inside the SEQUENCE
Trailing(b) == b \o <<0>>
Truncated(b) == SubSeq(b, 1, Len(b) - 1)
OuterSet(b) == <<49>> \o Tail(b)
InnerStray(b) == <<b[1], b[2] + 1>> \o SubSeq(b, 3, Len(b)) \o <<5>>
Malformed(b) == {Trailing(b), Truncated(b), OuterSet(b), InnerStray(b)}

\* the (issuer, subject) pairs Compare is called with, built around name d
\* and its encoding b
PairsOf(d, b) ==
    { <<b, EncDn(v)>> : v \in Variants(d) }
    \cup { <<b, m>> : m \in Malformed(b) \cup {<<>>} }
    \cup { <<m, b>> : m \in Malformed(b) \cup {<<>>} }
    \cup { <<Trailing(b), Truncated(b)>>, <<Trailing(b), <<>> >>,
           << <<>>, Trailing(b)>>, << <<>>, <<>> >> }

(***************************************************************************)
(* Inputs of the RDN matcher and of the attribute value comparator:        *)
(* attributes as the decoder produces them from their encodings.           *)
(***************************************************************************)
ia5UpperAtvB == EncAtv(oidDomainComponentBytes, <<22, 2, 65, 66>>) \* DC=AB IA5String

Decoded(atvBytes) == parseAttribute(atvBytes, 0).v

RdnPool == { Decoded(b) : b \in {pAtvB, utf8AtvB, bmpAtvB, prohibitedAtvB,
                                 wrongDcAtvB, ia5AtvB, ia5UpperAtvB} }

\* the most attributes a generated RDN holds
MaxAttrs == 2

RdnStructs == UNION { [1..n -> RdnPool] : n \in 0..MaxAttrs }

\* encoded values for the attribute value comparator
ValuePool ==
    { <<22, 2, 97, 98>>, <<22, 2, 65, 66>>, <<22, 2, 97, 66>>,   \* IA5 ab AB aB
      <<22, 3, 97, 32, 98>>, <<22, 4, 97, 32, 32, 98>>,          \* IA5 "a b" "a  b"
      <<22, 1, 98>>, <<22, 0>>,                                  \* IA5 b, empty
      <<19, 2, 97, 98>>, <<19, 2, 65, 66>>,                      \* Printable ab AB
      <<19, 3, 97, 32, 98>>, <<12, 4, 97, 32, 32, 98>>,          \* Printable "a b", UTF8 "a  b"
      <<12, 2, 97, 98>>, <<12, 2, 65, 66>>,                      \* UTF8 ab AB
      <<12, 3, 239, 191, 189>>,                                  \* UTF8 U+FFFD
      <<30, 4, 0, 97, 0, 98>>,                                   \* BMP ab
      <<19, 2, 97, 64>>,                                         \* Printable "a@"
      <<2, 1, 5>> }                                              \* INTEGER 5

AttrPool == { Decoded(EncAtv(o, v)) :
              o \in {oidOrganizationBytes, oidDomainComponentBytes}, v \in ValuePool }

NoAttribute == attribute(<<>>, 0, <<>>)

(***************************************************************************)
(* The state: one call of Compare (or, in SpecRdn and SpecAttr, of         *)
(* compareRelativeDistinguishedName and compareAttribute), its arguments,  *)
(* local variables and position.                                           *)
(***************************************************************************)
VARIABLES issuer, subject, pc, i, s, xd, yd, idx, xr, yr, x, y, result, err,
          heap, rest, ri, rj

vars == <<issuer, subject, pc, i, s, xd, yd, idx, xr, yr, x, y, result, err,
          heap, rest, ri, rj>>

inner == <<xr, yr, x, y, heap, rest, ri, rj>>

\* a Go slice: the backing array it points into and its length; nil
NilSlice == [arr |-> 0, n |-> 0]

\* before compareRelativeDistinguishedName runs step by step: no backing
\* array, rest nil, both loop indices 0
NoScan ==
    /\ heap = <<>>
    /\ rest = NilSlice
    /\ ri = 0
    /\ rj = 0

Init ==
    /\ \E d \in DnStructs : \E b \in {EncDn(d)} : \E p \in PairsOf(d, b) :
          issuer = p[1] /\ subject = p[2]
    /\ pc = "Compare"
    /\ i = NilDn
    /\ s = NilDn
    /\ xd = NilDn
    /\ yd = NilDn
    /\ idx = 0
    /\ xr = <<>>
    /\ yr = <<>>
    /\ x = NoAttribute
    /\ y = NoAttribute
    /\ NoScan
    /\ result = FALSE
    /\ err = NoErr

Return(r, e) == pc' = "done" /\ result' = r /\ err' = e

\* Compare without the test of the issuer's length
CheckIssuerSkipped ==
    /\ pc = "Compare"
    /\ pc' = "checkSubject"
    /\ UNCHANGED <<issuer, subject, i, s, xd, yd, idx, inner, result, err>>

\* if len(issuer) == 0 { return false, errors.New(...) }
CheckIssuer ==
    /\ pc = "Compare"
    /\ IF Len(issuer) = 0 THEN Return(FALSE, ErrEmptyIssuer)
       ELSE pc' = "checkSubject" /\ UNCHANGED <<result, err>>
    /\ UNCHANGED <<issuer, subject, i, s, xd, yd, idx, inner>>

\* Compare without the test of the subject's length
CheckSubjectSkipped ==
    /\ pc = "checkSubject"
    /\ pc' = "parseIssuer"
    /\ UNCHANGED <<issuer, subject, i, s, xd, yd, idx, inner, result, err>>

\* if len(subject) == 0 { return false, nil }
CheckSubject ==
    /\ pc = "checkSubject"
    /\ IF Len(subject) = 0 THEN Return(FALSE, NoErr)
       ELSE pc' = "parseIssuer" /\ UNCHANGED <<result, err>>
    /\ UNCHANGED <<issuer, subject, i, s, xd, yd, idx, inner>>

\* if i, err = parseDn(issuer); err != nil { return false, err }
ParseIssuer ==
    /\ pc = "parseIssuer"
    /\ \E r \in {parseDn(issuer)} :
       /\ i' = r.dn
       /\ IF r.err # NoErr THEN Return(FALSE, r.err)
          ELSE pc' = "parseSubject" /\ UNCHANGED <<result, err>>
    /\ UNCHANGED <<issuer, subject, s, xd, yd, idx, inner>>

\* if s, err = parseDn(subject); err != nil { return false, err }
ParseSubject ==
    /\ pc = "parseSubject"
    /\ \E r \in {parseDn(subject)} :
       /\ s' = r.dn
       /\ IF r.err # NoErr THEN Return(FALSE, r.err)
          ELSE pc' = "compareDistinguishedName" /\ UNCHANGED <<result, err>>
    /\ UNCHANGED <<issuer, subject, i, xd, yd, idx, inner>>

\* return compareDistinguishedName(i, s): entry and the length test
EnterCompareDistinguishedName ==
    /\ pc = "compareDistinguishedName"
    /\ xd' = i
    /\ yd' = s
    /\ IF len(i) # len(s) THEN Return(FALSE, NoErr)
       ELSE pc' = "loop" /\ UNCHANGED <<result, err>>
    /\ UNCHANGED <<issuer, subject, i, s, idx, inner>>

\* the loop over the RDN positions going on after a non-match
LoopCompareDistinguishedNameContinuing ==
    /\ pc = "loop"
    /\ IF idx >= len(xd)
       THEN Return(TRUE, NoErr) /\ UNCHANGED idx
       ELSE \E m \in {compareRelativeDistinguishedName(xd.rdns[idx + 1],
                                                        yd.rdns[idx + 1])} :
            IF m.err # NoErr THEN Return(FALSE, m.err) /\ UNCHANGED idx
            ELSE idx' = idx + 1 /\ UNCHANGED <<pc, result, err>>
    /\ UNCHANGED <<issuer, subject, i, s, xd, yd, inner>>

\* one iteration of the loop over the RDN positions, or its exit
LoopCompareDistinguishedName ==
    /\ pc = "loop"
    /\ IF idx >= len(xd)
       THEN Return(TRUE, NoErr) /\ UNCHANGED idx
       ELSE \E m \in {compareRelativeDistinguishedName(xd.rdns[idx + 1],
                                                        yd.rdns[idx + 1])} :
            IF m.err # NoErr THEN Return(FALSE, m.err) /\ UNCHANGED idx
            ELSE IF m.result = FALSE THEN Return(FALSE, NoErr) /\ UNCHANGED idx
            ELSE idx' = idx + 1 /\ UNCHANGED <<pc, result, err>>
    /\ UNCHANGED <<issuer, subject, i, s, xd, yd, inner>>

Next ==
    \/ CheckIssuer
    \/ CheckSubject
    \/ ParseIssuer
    \/ ParseSubject
    \/ EnterCompareDistinguishedName
    \/ LoopCompareDistinguishedName

Spec == Init /\ [][Next]_vars

(***************************************************************************)
(* One call of compareRelativeDistinguishedName(xr, yr)                    *)
(***************************************************************************)
outer == <<issuer, subject, i, s, xd, yd, idx>>

InitOuter ==
    /\ issuer = <<>>
    /\ subject = <<>>
    /\ i = NilDn
    /\ s = NilDn
    /\ xd = NilDn
    /\ yd = NilDn
    /\ idx = 0
    /\ result = FALSE
    /\ err = NoErr

InitRdn ==
    /\ InitOuter
    /\ pc = "compareRelativeDistinguishedName"
    /\ xr \in RdnStructs
    /\ yr \in { r \in RdnStructs : Len(r) \in {Len(xr), Len(xr) - 1} }
    /\ x = NoAttribute
    /\ y = NoAttribute
    /\ NoScan

CallCompareRelativeDistinguishedName ==
    /\ pc = "compareRelativeDistinguishedName"
    /\ \E m \in {compareRelativeDistinguishedName(xr, yr)} : Return(m.result, m.err)
    /\ UNCHANGED <<outer, inner>>

NextRdn == CallCompareRelativeDistinguishedName

SpecRdn == InitRdn /\ [][NextRdn]_vars

(***************************************************************************)
(* One call of compareAttribute(x, y)                                      *)
(***************************************************************************)
InitAttr ==
    /\ InitOuter
    /\ pc = "compareAttribute"
    /\ xr = <<>>
    /\ yr = <<>>
    /\ x \in AttrPool
    /\ y \in AttrPool
    /\ NoScan

CallCompareAttribute ==
    /\ pc = "compareAttribute"
    /\ \E m \in {compareAttribute(x, y)} : Return(m.result, m.err)
    /\ UNCHANGED <<outer, inner>>

NextAttr == CallCompareAttribute

SpecAttr == InitAttr /\ [][NextAttr]_vars

(***************************************************************************)
(* Properties of Compare                                                   *)
(***************************************************************************)
Done == pc = "done"

\* b is a Name encoding: it decodes as SEQUENCE OF rdnSET and no byte is left
IsName(b) == \E u \in {unmarshalDn(b)} : u.err = NoErr /\ Len(u.rest) = 0

\* C4: when the issuer is empty, Compare returns (false, error) whatever the
\* subject is (empty, a Name or not a Name), and neither input is decoded.
C4_EmptyIssuerIsError ==
    Len(issuer) = 0 =>
        /\ pc \in {"Compare", "done"}
        /\ i = NilDn /\ s = NilDn
        /\ Done => (result = FALSE /\ err # NoErr)

C4_Witness == Done /\ Len(issuer) = 0 /\ Len(subject) # 0 /\ ~IsName(subject)

\* C5: when the issuer is not empty and the subject is empty, Compare returns
\* (false, nil), also for an issuer that is not a Name: it is not decoded.
C5_EmptySubjectIsNonMatch ==
    (Len(issuer) # 0 /\ Len(subject) = 0) =>
        /\ pc \in {"Compare", "checkSubject", "done"}
        /\ i = NilDn /\ s = NilDn
        /\ Done => (result = FALSE /\ err = NoErr)

C5_Witness == Done /\ Len(issuer) # 0 /\ Len(subject) = 0 /\ ~IsName(issuer)

\* C6: when both inputs are non-empty and one of them is not a Name (invalid
\* structure or bytes left over), Compare returns (false, error), the
\* distinguished name matcher is never entered, and the issuer is decoded
\* before the subject: the subject is decoded only once the issuer has been,
\* and an issuer that is not a Name decides the error.
C6_NotANameIsError ==
    /\ (pc = "parseSubject" \/ s # NilDn) => i # NilDn
    /\ (Len(issuer) # 0 /\ Len(subject) # 0 /\ (~IsName(issuer) \/ ~IsName(subject))) =>
        /\ pc \notin {"compareDistinguishedName", "loop"}
        /\ xd = NilDn /\ yd = NilDn /\ idx = 0
        /\ Done => (result = FALSE /\ err # NoErr)
        /\ (Done /\ ~IsName(issuer)) => (s = NilDn /\ err = parseDn(issuer).err)

C6_Witness ==
    /\ Done /\ Len(issuer) # 0 /\ IsName(issuer) /\ i # NilDn
    /\ unmarshalDn(subject).err = NoErr /\ Len(unmarshalDn(subject).rest) # 0
    /\ err = ErrParseDn

(***************************************************************************)
(* Well-formed attribute values                                            *)
(***************************************************************************)
\* the attributes of a decoded name
Attributes(d) ==
    UNION { { d.rdns[k][j] : j \in 1..Len(d.rdns[k]) } : k \in 1..len(d) }

Decodes(a) == toString(a.RawValue.FullBytes).err = NoErr

Prepares(a) == stringPrepare(toString(a.RawValue.FullBytes).s).err = NoErr

IsDirectoryTag(t) == t \in {TagUTF8String, TagPrintableString}

\* the value of a does not decode to text, or breaks the encoding rule of its
\* type: a domain component that is no IA5 string, a directory string that
\* holds a prohibited character
ValueMalformed(a) ==
    \/ ~Decodes(a)
    \/ a.Oid = oidDomainComponent /\ a.RawValue.Tag # TagIA5String
    \/ a.Oid # oidDomainComponent /\ IsDirectoryTag(a.RawValue.Tag) /\ ~Prepares(a)

\* a and b are of the same type and comparing them meets a value that does
\* not decode or breaks the encoding rule the pair is compared under
PairMalformed(a, b) ==
    /\ a.Oid = b.Oid
    /\ \/ ~Decodes(a) \/ ~Decodes(b)
       \/ /\ a.Oid = oidDomainComponent
          /\ (a.RawValue.Tag # TagIA5String \/ b.RawValue.Tag # TagIA5String)
       \/ /\ a.Oid # oidDomainComponent
          /\ IsDirectoryTag(a.RawValue.Tag) /\ IsDirectoryTag(b.RawValue.Tag)
          /\ (~Prepares(a) \/ ~Prepares(b))

\* Compare has returned for one Name given as issuer and as subject
ComparedWithItself ==
    Done /\ issuer = subject /\ Len(issuer) # 0 /\ IsName(issuer)

\* C1 (as stated): Compare(x, x) is (true, nil) for every non-empty x that
\* the decoder accepts with no byte left over.
C1_Original == ComparedWithItself => (result = TRUE /\ err = NoErr)

\* C1: for every non-empty x that the decoder accepts with no byte left over,
\* Compare(x, x) is (true, nil) when every attribute value of x decodes to
\* text and obeys the encoding rule of its type, and (false, error) when one
\* does not.
C1_ReflexiveOnWellFormedValues ==
    ComparedWithItself =>
        IF \A a \in Attributes(i) : ~ValueMalformed(a)
        THEN result = TRUE /\ err = NoErr
        ELSE result = FALSE /\ err # NoErr

C1_Witness ==
    /\ ComparedWithItself /\ result = TRUE /\ err = NoErr
    /\ len(i) = 2
    /\ \E a \in Attributes(i) : a.Oid = oidDomainComponent
    /\ \E a \in Attributes(i) : a.RawValue.Tag = TagBMPString

\* both inputs are Names, whose RDN sequences the matcher has been given
BothNames == IsName(issuer) /\ IsName(subject)

RECURSIVE FirstNonMatch(_, _, _)
FirstNonMatch(xdn, ydn, k) ==
    IF k >= len(xdn) THEN k
    ELSE IF compareRelativeDistinguishedName(xdn.rdns[k + 1], ydn.rdns[k + 1])
                # [result |-> TRUE, err |-> NoErr]
         THEN k
         ELSE FirstNonMatch(xdn, ydn, k + 1)

\* C7: compareDistinguishedName(x, y) returns (false, nil) without comparing
\* an RDN when the lengths differ; otherwise it stops at the first position
\* whose RDNs do not compare as (true, nil) and returns that position's
\* outcome, (false, nil) or (false, err), and it returns (true, nil) exactly
\* when every position matches.
C7_PositionalShortCircuit ==
    /\ pc = "loop" => (len(xd) = len(yd) /\ idx <= FirstNonMatch(xd, yd, 0))
    /\ (Done /\ xd # NilDn) =>
        IF len(xd) # len(yd)
        THEN result = FALSE /\ err = NoErr /\ idx = 0
        ELSE \E f \in {FirstNonMatch(xd, yd, 0)} :
             /\ idx = f
             /\ IF f = len(xd) THEN result = TRUE /\ err = NoErr
                ELSE /\ result = FALSE
                     /\ err = compareRelativeDistinguishedName(
                                  xd.rdns[f + 1], yd.rdns[f + 1]).err

C7_Witness ==
    /\ Done /\ xd # NilDn /\ len(xd) = 2 /\ len(yd) = 2
    /\ idx = 0 /\ result = FALSE /\ err = NoErr
    /\ compareRelativeDistinguishedName(xd.rdns[2], yd.rdns[2]).err # NoErr

(***************************************************************************)
(* Rearranging a Name: the decoded attributes are encoded again in a new   *)
(* order.                                                                  *)
(***************************************************************************)
RECURSIVE EncBase128(_, _)
EncBase128(n, last) ==
    (IF n >= 128 THEN EncBase128(n \div 128, FALSE) ELSE <<>>)
        \o << (n % 128) + (IF last THEN 0 ELSE 128) >>

EncOid(arcs) ==
    EncBase128(arcs[1] * 40 + arcs[2], TRUE)
        \o Concat([k \in 1..(Len(arcs) - 2) |-> EncBase128(arcs[k + 2], TRUE)])

\* the encoding of the decoded name d
Reencode(d) ==
    EncDn([k \in 1..len(d) |->
              [j \in 1..Len(d.rdns[k]) |->
                  EncAtv(EncOid(d.rdns[k][j].Oid), d.rdns[k][j].RawValue.FullBytes)]])

\* decoding and encoding again gives the bytes of a decoded input back
ReencodeRoundTrip ==
    /\ i # NilDn => Reencode(i) = issuer
    /\ s # NilDn => Reencode(s) = subject

Perms(n) == { p \in [1..n -> 1..n] : \A a, b \in 1..n : a # b => p[a] # p[b] }

\* d with the attributes of its RDN k rearranged by p
PermuteRdn(d, k, p) ==
    [d EXCEPT !.rdns[k] = [j \in 1..Len(d.rdns[k]) |-> d.rdns[k][p[j]]]]

\* d with its RDNs a and b swapped
SwapRdns(d, a, b) ==
    [d EXCEPT !.rdns = [k \in 1..len(d) |->
                           IF k = a THEN d.rdns[b]
                           ELSE IF k = b THEN d.rdns[a] ELSE d.rdns[k]]]

\* no attribute of RDN k of x makes a malformed pair with one of RDN k of y
NoMalformedPairAt(k) ==
    k <= len(i) =>
        \A a \in 1..Len(i.rdns[k]) : \A b \in 1..Len(s.rdns[k]) :
            ~PairMalformed(i.rdns[k][a], s.rdns[k][b])

\* C2 (as stated): permuting the attributes of one RDN of y changes neither
\* the boolean nor the error/no-error outcome of Compare(x, y).
C2_Original ==
    (Done /\ BothNames) =>
        \A k \in 1..len(s) : \A p \in Perms(Len(s.rdns[k])) :
            \E c \in {CompareCall(issuer, Reencode(PermuteRdn(s, k, p)))} :
                c.result = result /\ ((c.err = NoErr) <=> (err = NoErr))

\* C2: if y' is y with the attributes of one RDN permuted, Compare(x, y')
\* returns the same boolean as Compare(x, y); it returns the same
\* error/no-error outcome too when no attribute of x's RDN at that position
\* makes a malformed pair with an attribute of that RDN of y (otherwise the
\* order of the scan decides whether a non-match comes with an error).
C2_PermutationWithinRdn ==
    (Done /\ BothNames) =>
        \A k \in 1..len(s) : \A p \in Perms(Len(s.rdns[k])) :
            \E c \in {CompareCall(issuer, Reencode(PermuteRdn(s, k, p)))} :
                /\ c.result = result
                /\ NoMalformedPairAt(k) => ((c.err = NoErr) <=> (err = NoErr))

C2_Witness ==
    /\ Done /\ BothNames /\ result = TRUE /\ err = NoErr
    /\ \E k \in 1..len(s) :
        /\ Len(s.rdns[k]) = 2
        /\ compareAttribute(s.rdns[k][1], s.rdns[k][2]).result = FALSE
        /\ Reencode(PermuteRdn(s, k, <<2, 1>>)) # subject

\* C9: if Compare(x, y) is (true, nil) and y' is y with two RDNs swapped,
\* Compare(x, y') is (true, nil) when the two RDNs are equal under the RDN
\* matcher and false otherwise.
C9_RdnOrderIsSignificant ==
    (Done /\ BothNames /\ result = TRUE /\ err = NoErr) =>
        \A a, b \in 1..len(s) :
            a < b =>
                \E c \in {CompareCall(issuer, Reencode(SwapRdns(s, a, b)))} :
                    IF compareRelativeDistinguishedName(s.rdns[a], s.rdns[b])
                           = [result |-> TRUE, err |-> NoErr]
                    THEN c = [result |-> TRUE, err |-> NoErr]
                    ELSE c.result = FALSE

C9_Witness ==
    /\ Done /\ BothNames /\ result = TRUE /\ err = NoErr /\ len(s) = 2
    /\ Len(s.rdns[1]) = Len(s.rdns[2])
    /\ compareRelativeDistinguishedName(s.rdns[1], s.rdns[2]).result = FALSE
    /\ CompareCall(issuer, Reencode(SwapRdns(s, 1, 2)))
           = [result |-> FALSE, err |-> NoErr]

(***************************************************************************)
(* Properties of compareRelativeDistinguishedName (SpecRdn)                *)
(***************************************************************************)
\* a and b are equal under compareAttribute
Equal(a, b) == compareAttribute(a, b) = [result |-> TRUE, err |-> NoErr]

\* no comparison of an attribute of xr with an attribute of yr raises an error
NoComparisonRaises ==
    \A a \in 1..Len(xr) : \A b \in 1..Len(yr) : ~PairMalformed(xr[a], yr[b])

\* a one-to-one pairing of xr with yr in which every pair is equal
PairingExists ==
    \E p \in Perms(Len(xr)) : \A j \in 1..Len(xr) : Equal(xr[j], yr[p[j]])

Range(q) == { q[k] : k \in 1..Len(q) }

\* every class of equal attributes has the same count in xr and in yr
ClassCountsAgree ==
    \A a \in Range(xr) \cup Range(yr) :
        Cardinality({ j \in 1..Len(xr) : Equal(a, xr[j]) })
            = Cardinality({ j \in 1..Len(yr) : Equal(a, yr[j]) })

\* C8: for RDNs xr and yr of equal size on which no attribute comparison
\* raises an error, compareRelativeDistinguishedName(xr, yr) returns no error
\* and returns true iff a one-to-one pairing of equal attributes exists, in
\* whatever order the attributes come; where every attribute equals itself
\* this is the same as every class of equal attributes having the same count
\* on both sides.
C8_GreedyPairingIsComplete ==
    (Done /\ Len(xr) = Len(yr) /\ NoComparisonRaises) =>
        /\ err = NoErr
        /\ result <=> PairingExists
        /\ (\A a \in Range(xr) \cup Range(yr) : Equal(a, a))
               => (result <=> ClassCountsAgree)

C8_Witness ==
    /\ Done /\ Len(xr) = 2 /\ Len(yr) = 2 /\ NoComparisonRaises
    /\ result = TRUE /\ err = NoErr
    /\ ~Equal(xr[1], yr[1]) /\ Equal(xr[1], yr[2]) /\ Equal(xr[2], yr[1])
    /\ xr[1].RawValue.Tag # yr[2].RawValue.Tag

(***************************************************************************)
(* Properties of compareAttribute (SpecAttr)                               *)
(***************************************************************************)
Lower(c) == IF c >= 65 /\ c <= 90 THEN c + 32 ELSE c

\* the texts a and b are equal up to the case of their letters
EqualIgnoringCase(a, b) ==
    /\ Len(a) = Len(b)
    /\ \A k \in 1..Len(a) : Lower(a[k]) = Lower(b[k])

\* C10: for two domain component attributes whose values decode to text,
\* compareAttribute returns (false, error) if either tag is not IA5 string,
\* also for identical values and for two directory strings; otherwise it
\* returns (b, nil), b being the equality of the two decoded strings up to
\* the case of the letters, with no string preparation.
C10_DomainComponentRule ==
    (Done /\ x.Oid = oidDomainComponent /\ y.Oid = oidDomainComponent
          /\ Decodes(x) /\ Decodes(y)) =>
        IF x.RawValue.Tag # TagIA5String \/ y.RawValue.Tag # TagIA5String
        THEN result = FALSE /\ err = ErrDomainComponent
        ELSE /\ err = NoErr
             /\ result = EqualIgnoringCase(toString(x.RawValue.FullBytes).s,
                                           toString(y.RawValue.FullBytes).s)

C10_Witness ==
    /\ Done /\ x.Oid = oidDomainComponent /\ y = x
    /\ x.RawValue.Tag = TagUTF8String /\ Decodes(x) /\ Prepares(x)
    /\ result = FALSE /\ err = ErrDomainComponent

\* compareAttribute has returned for two attributes of one type that is not
\* the domain component, whose values decode to text
ComparedSameTypeTexts ==
    /\ Done /\ x.Oid = y.Oid /\ x.Oid # oidDomainComponent
    /\ Decodes(x) /\ Decodes(y)

BothDirectoryStrings ==
    IsDirectoryTag(x.RawValue.Tag) /\ IsDirectoryTag(y.RawValue.Tag)

\* the prepared forms of the two decoded texts are the same
PreparedEqual ==
    stringPrepare(toString(x.RawValue.FullBytes).s).u
        = stringPrepare(toString(y.RawValue.FullBytes).s).u

\* C11 (as stated): for two UTF8/printable values of one non-domain-component
\* type the result is (prepare(s) = prepare(t), nil); with any other tag it
\* is (equality of the raw encoded bytes, nil).
C11_Original ==
    ComparedSameTypeTexts =>
        /\ err = NoErr
        /\ result = IF BothDirectoryStrings THEN PreparedEqual
                    ELSE x.RawValue.FullBytes = y.RawValue.FullBytes

\* C11: for two attributes of one non-domain-component type whose values
\* decode to text: if both tags are UTF8 or printable string the result is
\* (prepare(s) = prepare(t), nil) when the String Preparer accepts both
\* texts, and (false, error) when it rejects one; if either tag is another
\* one the String Preparer is not used and the result is (equality of the
\* raw encoded bytes, nil), so BMP text matches neither its printable nor
\* its UTF8 form.
C11_DirectoryStringOrBinary ==
    ComparedSameTypeTexts =>
        IF BothDirectoryStrings
        THEN IF Prepares(x) /\ Prepares(y)
             THEN err = NoErr /\ result = PreparedEqual
             ELSE result = FALSE /\ err = ErrProhibited
        ELSE err = NoErr /\ result = (x.RawValue.FullBytes = y.RawValue.FullBytes)

C11_Witness ==
    /\ ComparedSameTypeTexts
    /\ x.RawValue.Tag = TagPrintableString /\ y.RawValue.Tag = TagUTF8String
    /\ toString(x.RawValue.FullBytes).s # toString(y.RawValue.FullBytes).s
    /\ result = TRUE /\ err = NoErr

(***************************************************************************)
(* compareByBinaryComparison and then compareAttribute on attributes built *)
(* by hand, as the tests build them: the raw value may be empty, and the   *)
(* tag field need not be the tag of the bytes.                             *)
(***************************************************************************)
oidOrganization == <<2, 5, 4, 10>>

RawPool ==
    { attribute(o, t, fb) :
        o \in {oidOrganization, oidDomainComponent},
        t \in {0, TagIA5String, TagUTF8String},
        fb \in { <<>>, <<22, 2, 97, 98>>, <<12, 2, 97, 98>>, <<22, 0>>, <<2, 1, 5>> } }

InitRaw ==
    /\ InitOuter
    /\ pc = "compareByBinaryComparison"
    /\ xr = <<>>
    /\ yr = <<>>
    /\ x \in RawPool
    /\ y \in RawPool
    /\ NoScan

CallCompareByBinaryComparison ==
    /\ pc = "compareByBinaryComparison"
    /\ result' = compareByBinaryComparison(x.RawValue.FullBytes, y.RawValue.FullBytes)
    /\ pc' = "compareAttribute"
    /\ UNCHANGED <<outer, inner, err>>

NextRaw ==
    \/ CallCompareByBinaryComparison
    \/ CallCompareAttribute

SpecRaw == InitRaw /\ [][NextRaw]_vars

\* the raw encoded value of x or of y is empty
EitherRawValueEmpty ==
    Len(x.RawValue.FullBytes) = 0 \/ Len(y.RawValue.FullBytes) = 0

\* C12: compareByBinaryComparison returns false whenever either byte
\* sequence is empty, also when both are, and compareAttribute never returns
\* (true, nil) for two attributes of which either raw value is empty.
C12_EmptyRawValuesNeverMatch ==
    EitherRawValueEmpty =>
        /\ pc = "compareAttribute" => result = FALSE
        /\ Done => ~(result = TRUE /\ err = NoErr)

C12_Witness ==
    /\ pc = "compareAttribute" /\ result = FALSE
    /\ Len(x.RawValue.FullBytes) = 0 /\ Len(y.RawValue.FullBytes) = 0
    /\ x = y

(***************************************************************************)
(* compareRelativeDistinguishedName(xr, yr) step by step, with the memory  *)
(* its slices point into.  heap[1] and heap[2] are the backing arrays of   *)
(* the caller's xr and yr; the variables xr and yr keep the sequences the  *)
(* caller passed.  rest is the slice variable of the matcher.              *)
(***************************************************************************)
\* hand-built as the tests build attributes: the tag field says IA5 string,
\* the bytes are the UTF8 string U+FFFD
mislabelledAtv == attribute(oidOrganization, TagIA5String, <<12, 3, 239, 191, 189>>)

ScanPool ==
    { Decoded(b) : b \in {pAtvB, utf8AtvB, bmpAtvB, prohibitedAtvB} }
        \cup {mislabelledAtv}

ScanStructs == UNION { [1..n -> ScanPool] : n \in 0..MaxAttrs }

\* the elements of slice sl
Elems(sl) == IF sl.arr = 0 THEN <<>> ELSE SubSeq(heap[sl.arr], 1, sl.n)

InitScan ==
    /\ InitOuter
    /\ pc = "compareRelativeDistinguishedName"
    /\ xr \in ScanStructs
    /\ yr \in { r \in ScanStructs : Len(r) \in {Len(xr), Len(xr) - 1} }
    /\ heap = <<xr, yr>>
    /\ rest = NilSlice
    /\ ri = 0
    /\ rj = 0
    /\ x = NoAttribute
    /\ y = NoAttribute

\* if len(xr) != len(yr) { return false, nil }; rest := yr
EnterCompareRelativeDistinguishedName ==
    /\ pc = "compareRelativeDistinguishedName"
    /\ IF Len(heap[1]) # Len(heap[2])
       THEN Return(FALSE, NoErr) /\ UNCHANGED rest
       ELSE /\ rest' = [arr |-> 2, n |-> Len(heap[2])]
            /\ pc' = "rdnLoop"
            /\ UNCHANGED <<result, err>>
    /\ UNCHANGED <<outer, xr, yr, x, y, heap, ri, rj>>

\* for i := 0; i < len(xr); i++ { findMatchedAttribute(xr[i], rest) ... }
LoopCompareRelativeDistinguishedName ==
    /\ pc = "rdnLoop"
    /\ IF ri >= Len(heap[1])
       THEN Return(TRUE, NoErr) /\ UNCHANGED <<x, rj>>
       ELSE /\ x' = heap[1][ri + 1]
            /\ rj' = 0
            /\ pc' = "findMatchedAttribute"
            /\ UNCHANGED <<result, err>>
    /\ UNCHANGED <<outer, xr, yr, y, heap, rest, ri>>

\* the scan of findMatchedAttribute taking a comparison error for a non-match
ScanFindMatchedAttributeSkippingErrors ==
    /\ pc = "findMatchedAttribute"
    /\ IF rj >= rest.n
       THEN Return(FALSE, NoErr) /\ UNCHANGED <<y, rest, rj>>
       ELSE /\ y' = heap[rest.arr][rj + 1]
            /\ \E c \in {compareAttribute(x, heap[rest.arr][rj + 1])} :
                 IF c.err = NoErr /\ c.result
                 THEN pc' = "removeAttribute" /\ UNCHANGED <<rest, rj, result, err>>
                 ELSE rj' = rj + 1 /\ UNCHANGED <<pc, rest, result, err>>
    /\ UNCHANGED <<outer, xr, yr, x, heap, ri>>

\* one iteration of the scan of findMatchedAttribute(atv = x, r = rest), or
\* its end without a match, on which compareRelativeDistinguishedName
\* returns (false, nil)
ScanFindMatchedAttribute ==
    /\ pc = "findMatchedAttribute"
    /\ IF rj >= rest.n
       THEN Return(FALSE, NoErr) /\ UNCHANGED <<y, rest, rj>>
       ELSE /\ y' = heap[rest.arr][rj + 1]
            /\ \E c \in {compareAttribute(x, heap[rest.arr][rj + 1])} :
                 IF c.err # NoErr
                 THEN Return(FALSE, c.err) /\ rest' = NilSlice /\ UNCHANGED rj
                 ELSE IF c.result
                      THEN pc' = "removeAttribute" /\ UNCHANGED <<rest, rj, result, err>>
                 ELSE rj' = rj + 1 /\ UNCHANGED <<pc, rest, result, err>>
    /\ UNCHANGED <<outer, xr, yr, x, heap, ri>>

\* the backing array a of n elements in use after
\* append(a[:index], a[index+1:]...): the elements behind index move one
\* place down, the last place keeps its element
Shifted(a, index, n) ==
    SubSeq(a, 1, index) \o SubSeq(a, index + 2, n) \o SubSeq(a, n, Len(a))

\* removeAttribute working on the array of r, with no copy of it
RemoveAttributeInPlace ==
    /\ pc = "removeAttribute"
    /\ IF rj < 0 \/ rj >= rest.n
       THEN Return(FALSE, ErrBounds) /\ rest' = NilSlice /\ UNCHANGED <<heap, ri>>
       ELSE /\ heap' = [heap EXCEPT ![rest.arr] = Shifted(heap[rest.arr], rj, rest.n)]
            /\ rest' = [arr |-> rest.arr, n |-> rest.n - 1]
            /\ ri' = ri + 1
            /\ pc' = "rdnLoop"
            /\ UNCHANGED <<result, err>>
    /\ UNCHANGED <<outer, xr, yr, x, y, rj>>

\* removeAttribute(index = rj, r = rest): result = make(rdnSET, len(r));
\* copy(result, r); result = append(result[:index], result[index+1:]...);
\* then rest = result, break, and the next i of the caller's loop
RemoveAttribute ==
    /\ pc = "removeAttribute"
    /\ IF rj < 0 \/ rj >= rest.n
       THEN Return(FALSE, ErrBounds) /\ rest' = NilSlice /\ UNCHANGED <<heap, ri>>
       ELSE /\ heap' = Append(heap, Shifted(Elems(rest), rj, rest.n))
            /\ rest' = [arr |-> Len(heap) + 1, n |-> rest.n - 1]
            /\ ri' = ri + 1
            /\ pc' = "rdnLoop"
            /\ UNCHANGED <<result, err>>
    /\ UNCHANGED <<outer, xr, yr, x, y, rj>>

NextScan ==
    \/ EnterCompareRelativeDistinguishedName
    \/ LoopCompareRelativeDistinguishedName
    \/ ScanFindMatchedAttribute
    \/ RemoveAttribute

SpecScan == InitScan /\ [][NextScan]_vars

\* the steps return what the call returns
ScanAgrees ==
    Done => [result |-> result, err |-> err] = compareRelativeDistinguishedName(xr, yr)

\* findMatchedAttribute is scanning rest for a match of x, or has found one
Scanning == pc \in {"findMatchedAttribute", "removeAttribute"}

\* C13: while the remaining attributes of yr are scanned for a match of
\* xr[i], every candidate passed so far was a non-match without error, so a
\* candidate is compared only if none before it matched or raised an error;
\* the scan stops at the first match; and an error raised by compareAttribute
\* on a candidate is returned at once as (false, err), also when a later
\* candidate or another pairing of the two RDNs would have matched.
C13_ScanOrderErrors ==
    /\ Scanning =>
        /\ x = heap[1][ri + 1]
        /\ rj <= rest.n
        /\ \A j \in 1..rj :
               compareAttribute(x, Elems(rest)[j]) = [result |-> FALSE, err |-> NoErr]
    /\ pc = "removeAttribute" => (y = Elems(rest)[rj + 1] /\ Equal(x, y))
    /\ (Done /\ err # NoErr) =>
        /\ result = FALSE
        /\ x = heap[1][ri + 1]
        /\ y \in Range(yr)
        /\ err = compareAttribute(x, y).err
    /\ (Done /\ err = NoErr /\ result = FALSE /\ Len(xr) = Len(yr)) =>
        /\ rj = rest.n
        /\ \A j \in 1..rest.n : ~Equal(x, Elems(rest)[j])

C13_Witness ==
    /\ Done /\ result = FALSE /\ err # NoErr
    /\ Len(xr) = 2 /\ ri = 0 /\ rj = 0
    /\ Equal(xr[1], yr[2])
    /\ PairingExists

\* C14: for two attributes with different type identifiers compareAttribute
\* returns (false, nil) whatever the values are: a value that does not
\* decode, is empty or carries the wrong tag raises no error.
C14_DifferentTypesNeverDecode ==
    (Done /\ x.Oid # y.Oid) => (result = FALSE /\ err = NoErr)

C14_Witness ==
    /\ Done /\ x.Oid # y.Oid /\ result = FALSE /\ err = NoErr
    /\ Len(x.RawValue.FullBytes) = 0
    /\ ~Decodes(y) /\ Len(y.RawValue.FullBytes) # 0
    /\ y.Oid = oidDomainComponent /\ y.RawValue.Tag = TagUTF8String

\* q without its element at index k, counted from 0
Without(q, k) == SubSeq(q, 1, k) \o SubSeq(q, k + 2, Len(q))

\* no step changes an array that is in memory; removeAttribute gives back a
\* slice of a new array that holds r without r[index]; findMatchedAttribute
\* ending without a match gives back the very slice it was given
StepKeepsMemory ==
    /\ \A a \in 1..Len(heap) : heap'[a] = heap[a]
    /\ (pc = "removeAttribute" /\ pc' = "rdnLoop") =>
        /\ rest'.arr > Len(heap)
        /\ SubSeq(heap'[rest'.arr], 1, rest'.n) = Without(Elems(rest), rj)
    /\ (pc = "findMatchedAttribute" /\ rj >= rest.n) => rest' = rest

\* C15: matching never mutates its inputs: through and after a call of
\* compareRelativeDistinguishedName, whether it ends in a match, a non-match
\* or an error, the caller's xr and yr hold the same attributes in the same
\* order; removeAttribute and findMatchedAttribute leave the sequence r they
\* are given as it was, removing the consumed attribute from a new copy only,
\* and findMatchedAttribute returns r itself when it finds no match.
C15_InputsNeverMutated ==
    /\ [](heap[1] = xr /\ heap[2] = yr)
    /\ [][StepKeepsMemory]_vars

C15_Witness ==
    /\ Done /\ result = TRUE /\ err = NoErr
    /\ Len(xr) = 2 /\ Len(heap) = 4
    /\ yr[1] # yr[2] /\ Equal(xr[1], yr[1])
    /\ heap[2] = yr /\ heap[3] = <<yr[2], yr[2]>>

\* C16: a positive match is symmetric: when compareDistinguishedName(x, y)
\* returns (true, nil) for two decoded names, compareDistinguishedName(y, x)
\* returns (true, nil) too.
C16_MatchIsSymmetric ==
    (Done /\ xd # NilDn /\ result = TRUE /\ err = NoErr) =>
        compareDistinguishedName(yd, xd) = [result |-> TRUE, err |-> NoErr]

C16_Witness ==
    /\ Done /\ xd # NilDn /\ result = TRUE /\ err = NoErr
    /\ \E k \in 1..len(xd) :
        /\ Len(xd.rdns[k]) = 2
        /\ ~Equal(xd.rdns[k][1], yd.rdns[k][1])
        /\ Equal(xd.rdns[k][1], yd.rdns[k][2])

====
